---------------------------- MODULE Spec2Model ----------------------------
(***************************************************************************)
(* Model of kermit (src/src/kermit.c): the tab/session lifecycle driven by *)
(* key presses and child-exited signals, the key-binding registry (default *)
(* table with invalid flags, user bindings), the settings parser, and the  *)
(* settings (colours, cursor, font) each terminal widget has been given.   *)
(*                                                                         *)
(* Text is modelled by TLA+ strings; characters are one-character strings. *)
(* Notebook page numbers are 0-based as in GTK: page p holds tabs[p + 1].  *)
(***************************************************************************)
EXTENDS Integers, Sequences, FiniteSets, TLC

(* Bounds of the model: the largest number of notebook pages, the number *)
(* of steps the font size moves away from its value at program start, and *)
(* the largest colorCount.                                                *)
MaxTabs == 3
MaxFontSteps == 2
MaxColorCount == 3

NoFile == <<"no such file">>

VARIABLES
    tabs,        \* notebook pages in order; tabs[p + 1].child is the state of
                 \* the child process of the terminal on page p: "spawning"
                 \* (spawn callback due), "running", or "none" (the spawn
                 \* failed or the child has exited); tabs[p + 1].applied is
                 \* what the vte_terminal_set_* calls have given the widget
    cur,         \* gtk_notebook_get_current_page
    closeTab,    \* static gboolean closeTab
    alive,       \* FALSE once gtk_main_quit was called
    disposing,   \* a widget dropped by remove_page has its child-exited due
    orphanCb,    \* spawn callbacks are due for widgets that are gone
    actionKey,   \* static int actionKey
    keyBindings, \* keyBindings[0 .. keyCount - 1]
    invalid,     \* indices i with defaultKeyBindings[i].invalid
    conf,        \* the static settings variables (termFont, termForeground,
                 \* colorCount, ...), one field each
    termPalette, \* static GdkRGBA termPalette[TERM_PALETTE_SIZE]
    currentFontSize, \* static int currentFontSize
    args,        \* static char **args, the argument vector of the launch
    last         \* the last event and what its handler did

vars == <<tabs, cur, closeTab, alive, disposing, orphanCb,
          actionKey, keyBindings, invalid, conf, termPalette,
          currentFontSize, args, last>>

-----------------------------------------------------------------------------
(* C strings *)

Ch(s, i) == SubSeq(s, i, i)

Min(a, b) == IF a < b THEN a ELSE b

UpperCase == "ABCDEFGHIJKLMNOPQRSTUVWXYZ"
LowerCase == "abcdefghijklmnopqrstuvwxyz"

UpperChars == {Ch(UpperCase, i) : i \in 1..26}
LowerOf == [c \in UpperChars |->
              Ch(LowerCase, CHOOSE i \in 1..26 : Ch(UpperCase, i) = c)]

\* tolower of one character
ToLower(c) == IF c \in UpperChars THEN LowerOf[c] ELSE c

\* strcasecmp(a, b) == 0
StrCaseEq(a, b) ==
    /\ Len(a) = Len(b)
    /\ \A i \in 1..Len(a) : ToLower(Ch(a, i)) = ToLower(Ch(b, i))

\* strncmp(a, b, n) == 0; n is a size_t, so a negative n compares everything
StrNEq(a, b, n) ==
    IF n < 0 THEN a = b
    ELSE SubSeq(a, 1, Min(n, Len(a))) = SubSeq(b, 1, Min(n, Len(b)))

IsSpace(c) == c \in {" ", "\t", "\n", "\r", "\f"}

Digits == "0123456789"
DigitChars == {Ch(Digits, i) : i \in 1..10}
DigitOf == [c \in DigitChars |-> (CHOOSE i \in 1..10 : Ch(Digits, i) = c) - 1]
IsDigit(c) == c \in DigitChars
DigitVal(c) == DigitOf[c]

RECURSIVE SkipSpace(_)
SkipSpace(s) ==
    IF Len(s) > 0 /\ IsSpace(Head(s)) THEN SkipSpace(Tail(s)) ELSE s

RECURSIVE AtoiDigits(_, _)
AtoiDigits(s, acc) ==
    IF Len(s) > 0 /\ IsDigit(Head(s))
    THEN AtoiDigits(Tail(s), acc * 10 + DigitVal(Head(s)))
    ELSE acc

\* atoi: leading white space, an optional sign, then the leading digits
atoi(s) ==
    LET t == SkipSpace(s)
    IN  IF Len(t) > 0 /\ Head(t) = "-" THEN 0 - AtoiDigits(Tail(t), 0)
        ELSE IF Len(t) > 0 /\ Head(t) = "+" THEN AtoiDigits(Tail(t), 0)
        ELSE AtoiDigits(t, 0)

-----------------------------------------------------------------------------
(* The default key bindings, static DefaultBindings defaultKeyBindings[] *)

DefaultKeyBindings == <<
    [key |-> "c",         cmd |-> "copy",              internal |-> TRUE],
    [key |-> "v",         cmd |-> "paste",             internal |-> TRUE],
    [key |-> "t",         cmd |-> "new-tab",           internal |-> TRUE],
    [key |-> "n",         cmd |-> "new-window",        internal |-> TRUE],
    [key |-> "return",    cmd |-> "new-tab",           internal |-> TRUE],
    [key |-> "r",         cmd |-> "reload-config",     internal |-> TRUE],
    [key |-> "d",         cmd |-> "default-config",    internal |-> TRUE],
    [key |-> "q",         cmd |-> "exit",              internal |-> TRUE],
    [key |-> "k",         cmd |-> "inc-font-size",     internal |-> TRUE],
    [key |-> "up",        cmd |-> "inc-font-size",     internal |-> TRUE],
    [key |-> "j",         cmd |-> "dec-font-size",     internal |-> TRUE],
    [key |-> "down",      cmd |-> "dec-font-size",     internal |-> TRUE],
    [key |-> "equals",    cmd |-> "default-font-size", internal |-> TRUE],
    [key |-> "plus",      cmd |-> "default-font-size", internal |-> TRUE],
    [key |-> "l",         cmd |-> "next-tab",          internal |-> TRUE],
    [key |-> "right",     cmd |-> "next-tab",          internal |-> TRUE],
    [key |-> "page_down", cmd |-> "next-tab",          internal |-> TRUE],
    [key |-> "h",         cmd |-> "prev-tab",          internal |-> TRUE],
    [key |-> "left",      cmd |-> "prev-tab",          internal |-> TRUE],
    [key |-> "page_up",   cmd |-> "prev-tab",          internal |-> TRUE],
    [key |-> "w",         cmd |-> "close-tab",         internal |-> TRUE],
    [key |-> "backspace", cmd |-> "close-tab",         internal |-> TRUE] >>

defaultKeyCount == Len(DefaultKeyBindings)

-----------------------------------------------------------------------------
(* The program state as one record, so that handlers compose.  removed is  *)
(* the page number the handler gave to gtk_notebook_remove_page, -1 when   *)
(* it removed no page; cloned holds the process the handler forked, fed    *)
(* the text it fed to a terminal, returned the value termAction returned,  *)
(* each << >> when there is none.                                          *)

State == [tabs |-> tabs, cur |-> cur, closeTab |-> closeTab, alive |-> alive,
          disposing |-> disposing, orphanCb |-> orphanCb,
          actionKey |-> actionKey, keyBindings |-> keyBindings,
          invalid |-> invalid, conf |-> conf, termPalette |-> termPalette,
          currentFontSize |-> currentFontSize, args |-> args,
          removed |-> -1, cloned |-> << >>, fed |-> << >>,
          returned |-> << >>]

Becomes(s) ==
    /\ tabs' = s.tabs
    /\ cur' = s.cur
    /\ closeTab' = s.closeTab
    /\ alive' = s.alive
    /\ disposing' = s.disposing
    /\ orphanCb' = s.orphanCb
    /\ actionKey' = s.actionKey
    /\ keyBindings' = s.keyBindings
    /\ invalid' = s.invalid
    /\ conf' = s.conf
    /\ termPalette' = s.termPalette
    /\ currentFontSize' = s.currentFontSize
    /\ args' = s.args

\* gtk_notebook_get_n_pages
NPages(s) == Len(s.tabs)

-----------------------------------------------------------------------------
(* The settings: their values at program start, colours, the palette, and  *)
(* the calls that give the settings to a terminal widget.                  *)
(* A double that the program computes as a quotient of integers is the     *)
(* fraction in lowest terms, <<numerator, denominator>>.  termOpacity, the  *)
(* one setting read with atof, is kept in thousandths.                     *)
(* A palette (termPalette, or the copy a widget holds) is the function     *)
(* from the indices whose entry differs from the value setTermColors       *)
(* computes for the index to that entry; PaletteAt reads any entry.        *)

\* the macros of kermit.h that initialise the static variables
TERM_FONT == "monospace"
TERM_FONT_DEFAULT_SIZE == 9
TERM_LOCALE == "en_US.UTF-8"
TERM_WORD_CHARS == "-./?%&#_=+@~"
TERM_OPACITY == 960
TERM_BACKGROUND == 0
TERM_FOREGROUND == 16777215
TERM_BOLD_COLOR == 16777215
TERM_CURSOR_COLOR == 16777215
TERM_CURSOR_FG == 16777215
TERM_PALETTE_SIZE == 256

\* the initialisers of the static settings variables
DefaultConf ==
    [termLocale |-> TERM_LOCALE, termWordChars |-> TERM_WORD_CHARS,
     tabPosition |-> 0, termFont |-> TERM_FONT,
     defaultFontSize |-> TERM_FONT_DEFAULT_SIZE,
     termOpacity |-> TERM_OPACITY,
     termCursorColor |-> TERM_CURSOR_COLOR, termCursorFg |-> TERM_CURSOR_FG,
     termCursorShape |-> "block",
     termForeground |-> TERM_FOREGROUND, termBoldColor |-> TERM_BOLD_COLOR,
     termBackground |-> TERM_BACKGROUND, colorCount |-> 0]

RECURSIVE GCD(_, _)
GCD(a, b) == IF b = 0 THEN a ELSE GCD(b, a % b)

\* the double n / d
Frac(n, d) == <<n \div GCD(n, d), d \div GCD(n, d)>>

CLR_R(x) == (x \div 65536) % 256
CLR_G(x) == (x \div 256) % 256
CLR_B(x) == x % 256
CLR_16(x) == Frac(x, 255)

\* (const GdkRGBA) { .red = ..., .green = ..., .blue = ..., .alpha = a }
CLR_GDK(x, a) ==
    [red |-> CLR_16(CLR_R(x)), green |-> CLR_16(CLR_G(x)),
     blue |-> CLR_16(CLR_B(x)), alpha |-> a]

PaletteIndex == 0..(TERM_PALETTE_SIZE - 1)

\* i & (1 << k), as a truth value
BitSet(i, k) == (i \div (2 ^ k)) % 2 = 1

\* Algorithmic with the bright bit added to the channels whose colour bit is
\* set only
Algorithmic_BrightOnSet(i) ==
    IF i < 16
    THEN LET bright == IF i > 7 THEN 16383 ELSE 0
             Chan(k) == Frac(IF BitSet(i, k) THEN 49152 + bright ELSE 0,
                             65535)
         IN  [red |-> Chan(0), green |-> Chan(1), blue |-> Chan(2),
              alpha |-> 0]
    ELSE IF i < 232
    THEN LET j == i - 16
             r == j \div 36
             g == (j \div 6) % 6
             b == j % 6
             Chan(c) == Frac(IF c = 0 THEN 0 ELSE c * 40 + 55, 255)
         IN  [red |-> Chan(r), green |-> Chan(g), blue |-> Chan(b),
              alpha |-> 0]
    ELSE LET shade == 8 + (i - 232) * 10
         IN  [red |-> Frac(shade + shade * 256, 65535),
              green |-> Frac(shade + shade * 256, 65535),
              blue |-> Frac(shade + shade * 256, 65535),
              alpha |-> 0]

\* Algorithmic with the grey ramp starting at shade 0
Algorithmic_GrayFromZero(i) ==
    IF i < 16
    THEN LET bright == IF i > 7 THEN 16383 ELSE 0
             Chan(k) == Frac((IF BitSet(i, k) THEN 49152 ELSE 0) + bright,
                             65535)
         IN  [red |-> Chan(0), green |-> Chan(1), blue |-> Chan(2),
              alpha |-> 0]
    ELSE IF i < 232
    THEN LET j == i - 16
             r == j \div 36
             g == (j \div 6) % 6
             b == j % 6
             Chan(c) == Frac(IF c = 0 THEN 0 ELSE c * 40 + 55, 255)
         IN  [red |-> Chan(r), green |-> Chan(g), blue |-> Chan(b),
              alpha |-> 0]
    ELSE LET shade == (i - 232) * 10
         IN  [red |-> Frac(shade + shade * 256, 65535),
              green |-> Frac(shade + shade * 256, 65535),
              blue |-> Frac(shade + shade * 256, 65535),
              alpha |-> 0]

\* the entry the loop of setTermColors computes for index i
Algorithmic(i) ==
    IF i < 16
    THEN LET bright == IF i > 7 THEN 16383 ELSE 0
             Chan(k) == Frac((IF BitSet(i, k) THEN 49152 ELSE 0) + bright,
                             65535)
         IN  [red |-> Chan(0), green |-> Chan(1), blue |-> Chan(2),
              alpha |-> 0]
    ELSE IF i < 232
    THEN LET j == i - 16
             r == j \div 36
             g == (j \div 6) % 6
             b == j % 6
             Chan(c) == Frac(IF c = 0 THEN 0 ELSE c * 40 + 55, 255)
         IN  [red |-> Chan(r), green |-> Chan(g), blue |-> Chan(b),
              alpha |-> 0]
    ELSE LET shade == 8 + (i - 232) * 10
         IN  [red |-> Frac(shade + shade * 256, 65535),
              green |-> Frac(shade + shade * 256, 65535),
              blue |-> Frac(shade + shade * 256, 65535),
              alpha |-> 0]

AlgorithmicPalette == [i \in PaletteIndex |-> Algorithmic(i)]

\* pal[i] of a palette
PaletteAt(pal, i) ==
    IF i \in DOMAIN pal THEN pal[i] ELSE AlgorithmicPalette[i]

\* the palette after pal[n] = v
PaletteSet(pal, n, v) ==
    IF v = AlgorithmicPalette[n]
    THEN [i \in (DOMAIN pal) \ {n} |-> pal[i]]
    ELSE [i \in (DOMAIN pal) \cup {n} |-> IF i = n THEN v ELSE pal[i]]

ZeroEntry ==
    [red |-> Frac(0, 1), green |-> Frac(0, 1), blue |-> Frac(0, 1),
     alpha |-> 0]

\* a static array starts zeroed
ZeroPalette ==
    [i \in {j \in PaletteIndex : AlgorithmicPalette[j] # ZeroEntry} |->
        ZeroEntry]

\* vte_terminal_new: a widget without a child; of what it has been given
\* only the font matters before configureTerm has run, << >> is no font
vte_terminal_new == [child |-> "none", applied |-> [font |-> << >>]]

\* Handlers work on a pair [s, t]: the program state and the terminal
\* widget they were called with.
\* setTermFont(terminal, fontSize); fontOk is FALSE when
\* pango_font_description_from_string returns NULL
setTermFont(st, fontSize, fontOk) ==
    IF fontOk
    THEN [s |-> [st.s EXCEPT !.currentFontSize = fontSize],
          t |-> [st.t EXCEPT !.applied.font =
                                 <<st.s.conf.termFont, fontSize>>]]
    ELSE st

\* setTermColors(terminal): the entries from colorCount on are computed,
\* those before it are left as they are; the widget copies the palette
setTermColors(st) ==
    LET c == st.s.conf
        pal == [i \in {j \in DOMAIN st.s.termPalette : j < c.colorCount} |->
                   st.s.termPalette[i]]
    IN  [s |-> [st.s EXCEPT !.termPalette = pal],
         t |-> [st.t EXCEPT
                  !.applied.palette = pal,
                  !.applied.foreground = CLR_GDK(c.termForeground, 0),
                  !.applied.background =
                      CLR_GDK(c.termBackground, c.termOpacity),
                  !.applied.bold = CLR_GDK(c.termBoldColor, 0)]]

\* the settings configureTerm sets before setTermColors and setTermFont
CursorAndChars(st) ==
    LET c == st.s.conf
    IN  [st EXCEPT !.t.applied =
            [wordChars |-> c.termWordChars,
             cursor |-> CLR_GDK(c.termCursorColor, 0),
             cursorFg |-> CLR_GDK(c.termCursorFg, 0),
             cursorShape |-> c.termCursorShape,
             palette |-> ZeroPalette,
             foreground |-> CLR_GDK(0, 0),
             background |-> CLR_GDK(0, 0),
             bold |-> CLR_GDK(0, 0),
             font |-> st.t.applied.font]]

\* configureTerm(terminal)
configureTerm(st, fontOk) ==
    setTermFont(setTermColors(CursorAndChars(st)),
                st.s.conf.defaultFontSize, fontOk)

\* what configureTerm gives a widget under the settings c, the palette pal
\* and the font the widget had; the font is the new one when it is valid
Applied(c, pal, font) ==
    [wordChars |-> c.termWordChars,
     cursor |-> CLR_GDK(c.termCursorColor, 0),
     cursorFg |-> CLR_GDK(c.termCursorFg, 0),
     cursorShape |-> c.termCursorShape,
     palette |-> pal,
     foreground |-> CLR_GDK(c.termForeground, 0),
     background |-> CLR_GDK(c.termBackground, c.termOpacity),
     bold |-> CLR_GDK(c.termBoldColor, 0),
     font |-> font]

-----------------------------------------------------------------------------
(* The notebook and the terminal widgets (GTK / VTE as the program uses them) *)

RemoveAt(q, i) == SubSeq(q, 1, i - 1) \o SubSeq(q, i + 1, Len(q))

\* getTerm: a new terminal widget, configured, whose shell is being spawned
\* asynchronously
getTerm(s, fontOk) ==
    LET st == configureTerm([s |-> s, t |-> vte_terminal_new], fontOk)
    IN  [st EXCEPT !.t.child = "spawning"]

\* mutant: the "page-added" handler does not switch to the new page
termTabOnAdd_NoSwitch(s, pageNum) == s

\* termTabOnAdd ("page-added"): the new page becomes the current one
termTabOnAdd(s, pageNum) == [s EXCEPT !.cur = pageNum]

\* gtk_notebook_append_page(notebook, getTerm(), NULL)
AppendPage(s, fontOk) ==
    LET st == getTerm(s, fontOk)
    IN  termTabOnAdd([st.s EXCEPT !.tabs = Append(@, st.t)], Len(s.tabs))

\* mutant: page 0 is removed whatever the current page is
RemoveCurrentPage_First(s) ==
    LET t == s.tabs[1]
    IN  [s EXCEPT !.tabs = Tail(@),
                  !.cur = IF s.cur > 0 THEN s.cur - 1 ELSE 0,
                  !.removed = 0,
                  !.disposing = (t.child = "running"),
                  !.orphanCb = @ \/ (t.child = "spawning")]

\* gtk_notebook_remove_page(notebook, gtk_notebook_get_current_page(notebook)):
\* the page before the removed one becomes current, or the one after it when
\* the first page is removed.  The notebook drops the widget; a widget whose
\* child is still running emits "child-exited" when it is disposed
\* (kermit.c:236-237), one whose child never started or has exited does not.
RemoveCurrentPage(s) ==
    LET t == s.tabs[s.cur + 1]
    IN  [s EXCEPT !.tabs = RemoveAt(@, s.cur + 1),
                  !.cur = IF s.cur > 0 THEN s.cur - 1 ELSE 0,
                  !.removed = s.cur,
                  !.disposing = (t.child = "running"),
                  !.orphanCb = @ \/ (t.child = "spawning")]

\* gtk_notebook_set_current_page: a negative page number means the last page,
\* a page number past the last page changes nothing.
SetCurrentPage(s, pageNum) ==
    IF pageNum < 0 THEN [s EXCEPT !.cur = NPages(s) - 1]
    ELSE IF pageNum < NPages(s) THEN [s EXCEPT !.cur = pageNum]
    ELSE s

\* mutant: the page after the last one is the first
NextPage_Wrap(s) == [s EXCEPT !.cur = (s.cur + 1) % NPages(s)]

\* gtk_notebook_next_page: nothing happens on the last page
NextPage(s) ==
    IF s.cur + 1 < NPages(s) THEN [s EXCEPT !.cur = s.cur + 1] ELSE s

\* gtk_notebook_prev_page: nothing happens on the first page
PrevPage(s) ==
    IF s.cur > 0 THEN [s EXCEPT !.cur = s.cur - 1] ELSE s

\* gtk_main_quit
MainQuit(s) == [s EXCEPT !.alive = FALSE]

-----------------------------------------------------------------------------
(* termOnChildExit, and the close-tab branch of termAction *)

\* mutant: the page is removed without the test for the last page
termOnChildExit_AlwaysRemove(s) ==
    IF ~s.closeTab THEN RemoveCurrentPage(s)
    ELSE [s EXCEPT !.closeTab = FALSE]

termOnChildExit(s) ==
    IF ~s.closeTab
    THEN IF NPages(s) # 1 THEN RemoveCurrentPage(s) ELSE MainQuit(s)
    ELSE [s EXCEPT !.closeTab = FALSE]

\* mutant: closeTab is not set before the page is removed
CloseTabAction_NoLatch(s) ==
    IF NPages(s) = 1 THEN s ELSE RemoveCurrentPage(s)

\* mutant: the last page is not protected
CloseTabAction_NoGuard(s) ==
    RemoveCurrentPage([s EXCEPT !.closeTab = TRUE])

CloseTabAction(s) ==
    IF NPages(s) = 1 THEN s
    ELSE RemoveCurrentPage([s EXCEPT !.closeTab = TRUE])

-----------------------------------------------------------------------------
(* parseSettings: the lines of the configuration file *)

RECURSIVE TakeWord(_)
\* the leading characters of s up to the first white space (sscanf %s)
TakeWord(s) ==
    IF Len(s) = 0 \/ IsSpace(Head(s)) THEN ""
    ELSE Head(s) \o TakeWord(Tail(s))

RECURSIVE TakeLine(_)
\* the leading characters of s up to the first newline (sscanf %[^\n])
TakeLine(s) ==
    IF Len(s) = 0 \/ Head(s) = "\n" THEN ""
    ELSE Head(s) \o TakeLine(Tail(s))

Drop(s, n) == SubSeq(s, n + 1, Len(s))

\* sscanf(buf, "%s %s\n", option, value): a conversion that finds no input
\* ends the scan and leaves its buffer, and those after it, as they were
ScanWords(buf, option, value) ==
    LET t1 == SkipSpace(buf)
        w1 == TakeWord(t1)
        w2 == TakeWord(SkipSpace(Drop(t1, Len(w1))))
    IN  IF w1 = "" THEN <<option, value>>
        ELSE IF w2 = "" THEN <<w1, value>>
        ELSE <<w1, w2>>

\* sscanf(buf, "%s %[^\n]\n", option, value)
ScanRest(buf, option, value) ==
    LET t1 == SkipSpace(buf)
        w1 == TakeWord(t1)
        w2 == TakeLine(SkipSpace(Drop(t1, Len(w1))))
    IN  IF w1 = "" THEN <<option, value>>
        ELSE IF w2 = "" THEN <<w1, value>>
        ELSE <<w1, w2>>

RECURSIVE SkipTilde(_)
SkipTilde(s) ==
    IF Len(s) > 0 /\ Head(s) = "~" THEN SkipTilde(Tail(s)) ELSE s

RECURSIVE TakeKey(_)
TakeKey(s) ==
    IF Len(s) = 0 \/ Head(s) = "~" THEN ""
    ELSE Head(s) \o TakeKey(Tail(s))

\* char *key = strtok(value, "~"); char *cmd = strtok(NULL, "");
\* hasKey / hasCmd are FALSE for a NULL result.  strtok ends the key in
\* place, so the value buffer afterwards reads up to the end of the key.
SplitBinding(value) ==
    LET t == SkipTilde(value)
        key == TakeKey(t)
        rest == Drop(t, Len(key) + 1)
    IN  [hasKey |-> key # "",
         key |-> key,
         hasCmd |-> key # "" /\ rest # "",
         cmd |-> rest,
         value |-> IF Len(t) > Len(key)
                   THEN SubSeq(value, 1, Len(value) - Len(t) + Len(key))
                   ELSE value]

\* cmd[strlen(cmd) - 1] = 0; ... g_strdup(cmd + 1)
TrimCmd(cmd) == SubSeq(cmd, 2, Len(cmd) - 1)

\* mutant: only the last character of cmd is cut off
MakeBinding_KeepFirst(option, key, cmd) ==
    [internal |-> option = "bindi",
     key |-> key,
     cmd |-> IF option = "bindx"
             THEN SubSeq(cmd, 1, Len(cmd) - 1) \o "\r"
             ELSE SubSeq(cmd, 1, Len(cmd) - 1)]

\* the Bindings entry the bind branch stores at keyBindings[keyCount]
MakeBinding(option, key, cmd) ==
    [internal |-> option = "bindi",
     key |-> key,
     cmd |-> IF option = "bindx" THEN TrimCmd(cmd) \o "\r" ELSE TrimCmd(cmd)]

\* mutant: the loop stops at the first default entry it invalidates
invalidateDefaultBinding_FirstOnly(inv, binding) ==
    LET hit == {i \in 1..defaultKeyCount :
                  /\ DefaultKeyBindings[i].cmd = binding.cmd
                  /\ DefaultKeyBindings[i].internal = binding.internal}
    IN  inv \cup {i \in hit : \A j \in hit : i <= j}

\* invalidateDefaultBinding: the indices it sets .invalid on are added
invalidateDefaultBinding(inv, binding) ==
    inv \cup {i \in 1..defaultKeyCount :
                 /\ DefaultKeyBindings[i].cmd = binding.cmd
                 /\ DefaultKeyBindings[i].internal = binding.internal}

HexDigits == "0123456789abcdef"
HexChars == {Ch(HexDigits, i) : i \in 1..16}
HexOf == [c \in HexChars |-> (CHOOSE i \in 1..16 : Ch(HexDigits, i) = c) - 1]
IsHexDigit(c) == ToLower(c) \in HexChars

RECURSIVE HexDigitsVal(_, _)
HexDigitsVal(s, acc) ==
    IF Len(s) > 0 /\ IsHexDigit(Head(s))
    THEN HexDigitsVal(Tail(s), acc * 16 + HexOf[ToLower(Head(s))])
    ELSE acc

\* strtol(s, NULL, 16): white space, an optional sign, an optional 0x, then
\* the leading hexadecimal digits
strtol16(s) ==
    LET t == SkipSpace(s)
        neg == Len(t) > 0 /\ Head(t) = "-"
        u == IF Len(t) > 0 /\ Head(t) \in {"-", "+"} THEN Tail(t) ELSE t
        v == IF Len(u) > 2 /\ Head(u) = "0" /\ ToLower(Ch(u, 2)) = "x"
                /\ IsHexDigit(Ch(u, 3))
             THEN Drop(u, 2) ELSE u
    IN  IF neg THEN 0 - HexDigitsVal(v, 0) ELSE HexDigitsVal(v, 0)

\* parseColor without the branch for a leading #
parseColor_KeepHash(value) == [color |-> strtol16(value), value |-> value]

\* parseColor(value): the colour, and what it leaves in the buffer value
parseColor(value) ==
    LET v == IF Len(value) > 0 /\ Head(value) = "#"
             THEN "0x" \o Tail(value) ELSE value
    IN  [color |-> strtol16(v), value |-> v]

RECURSIVE SkipDigits(_)
SkipDigits(s) ==
    IF Len(s) > 0 /\ IsDigit(Head(s)) THEN SkipDigits(Tail(s)) ELSE s

RECURSIVE FracDigits(_, _)
\* the leading digits of s as a decimal fraction, in units of scale / 100
FracDigits(s, scale) ==
    IF scale = 0 \/ Len(s) = 0 \/ ~IsDigit(Head(s)) THEN 0
    ELSE DigitVal(Head(s)) * scale + FracDigits(Tail(s), scale \div 10)

\* atof, in thousandths: white space, an optional sign, digits, and the
\* first three digits after a decimal point
atof(s) ==
    LET t == SkipSpace(s)
        neg == Len(t) > 0 /\ Head(t) = "-"
        u == IF Len(t) > 0 /\ Head(t) \in {"-", "+"} THEN Tail(t) ELSE t
        r == SkipDigits(u)
        m == AtoiDigits(u, 0) * 1000
               + (IF Len(r) > 0 /\ Head(r) = "." THEN FracDigits(Tail(r), 100)
                  ELSE 0)
    IN  IF neg THEN 0 - m ELSE m

\* strrchr(s, c): the position of the last c in s, 0 for NULL
strrchr(s, c) ==
    LET hits == {i \in 1..Len(s) : Ch(s, i) = c}
    IN  IF hits = {} THEN 0 ELSE CHOOSE i \in hits : \A j \in hits : j <= i

\* !strncmp(option, keyword, strlen(option))
IsOption(option, keyword) == StrNEq(option, keyword, Len(option))

\* the branch of the if / else-if chain of parseSettings a line takes
Directive(option) ==
    IF IsOption(option, "locale") THEN "locale"
    ELSE IF IsOption(option, "char") THEN "char"
    ELSE IF IsOption(option, "key") THEN "key"
    ELSE IF StrNEq(option, "bind", Len(option) - 1) THEN "bind"
    ELSE IF IsOption(option, "tab") THEN "tab"
    ELSE IF IsOption(option, "font") THEN "font"
    ELSE IF IsOption(option, "opacity") THEN "opacity"
    ELSE IF IsOption(option, "cursor") THEN "cursor"
    ELSE IF IsOption(option, "cursor_foreground") THEN "cursor_foreground"
    ELSE IF IsOption(option, "cursor_shape") THEN "cursor_shape"
    ELSE IF IsOption(option, "foreground") THEN "foreground"
    ELSE IF IsOption(option, "foreground_bold") THEN "foreground_bold"
    ELSE IF IsOption(option, "background") THEN "background"
    ELSE IF StrNEq(option, "color", Len(option) - 2) THEN "color"
    ELSE "none"

\* the colour branches: the variable is set to parseColor(value)
SetColor(ps, option, value, field) ==
    LET pc == parseColor(value)
    IN  [ps EXCEPT !.option = option, !.value = pc.value,
                   !.s.conf = [@ EXCEPT ![field] = pc.color]]

\* the colorN branch; option has an 'r' whenever it is reached with the
\* lines of the files below, and the index is one of the palette
SetPalette(ps, option, value) ==
    LET colorIndex == strrchr(option, "r")
        pc == parseColor(value)
        n == atoi(Drop(option, colorIndex))
    IN  IF colorIndex # 0
        THEN [ps EXCEPT !.option = option, !.value = pc.value,
                        !.s.termPalette =
                            IF n \in PaletteIndex
                            THEN PaletteSet(@, n, CLR_GDK(pc.color, 0))
                            ELSE @,
                        !.s.conf.colorCount = @ + 1]
        ELSE [ps EXCEPT !.option = option, !.value = value]

\* the font branch
SetFont(ps, buf, option, value) ==
    LET sr == ScanRest(buf, option, value)
        fontSize == strrchr(sr[2], " ")
    IN  IF fontSize # 0
        THEN [ps EXCEPT !.option = sr[1],
                        !.value = SubSeq(sr[2], 1, fontSize - 1),
                        !.s.conf.defaultFontSize =
                            atoi(Drop(sr[2], fontSize)),
                        !.s.conf.termFont = SubSeq(sr[2], 1, fontSize - 1)]
        ELSE [ps EXCEPT !.option = sr[1], !.value = sr[2]]

\* One pass of the while loop.  ps = [s, option, value]: the program state
\* and the two buffers, which keep their content from line to line.
ParseLine(ps, line) ==
    LET buf == line \o "\n"
        sc == ScanWords(buf, ps.option, ps.value)
        option == sc[1]
        value == sc[2]
        d == Directive(option)
        ps1 == [ps EXCEPT !.option = option, !.value = value]
    IN  IF Head(buf) = "#" \/ Len(buf) < 4 THEN ps
        ELSE IF d = "locale"
        THEN [ps1 EXCEPT !.s.conf.termLocale = value]
        ELSE IF d = "char"
        THEN [ps1 EXCEPT !.s.conf.termWordChars = TrimCmd(value)]
        ELSE IF d = "key"
        THEN [ps EXCEPT !.option = option, !.value = value,
                        !.s.actionKey = IF StrNEq(value, "alt", Len(value))
                                        THEN "alt" ELSE "shift"]
        ELSE IF d = "bind"
        THEN LET sr == ScanRest(buf, option, value)
                 sp == SplitBinding(sr[2])
                 b == MakeBinding(sr[1], sp.key, sp.cmd)
             IN  IF sp.hasCmd
                 THEN [ps EXCEPT !.option = sr[1], !.value = sp.value,
                                 !.s.keyBindings = Append(@, b),
                                 !.s.invalid = invalidateDefaultBinding(@, b)]
                 ELSE [ps EXCEPT !.option = sr[1], !.value = sp.value]
        ELSE IF d = "tab"
        THEN [ps1 EXCEPT !.s.conf.tabPosition =
                            IF StrNEq(value, "bottom", Len(value))
                            THEN 0 ELSE 1]
        ELSE IF d = "font" THEN SetFont(ps, buf, option, value)
        ELSE IF d = "opacity"
        THEN [ps1 EXCEPT !.s.conf.termOpacity = atof(value)]
        ELSE IF d = "cursor"
        THEN SetColor(ps, option, value, "termCursorColor")
        ELSE IF d = "cursor_foreground"
        THEN SetColor(ps, option, value, "termCursorFg")
        ELSE IF d = "cursor_shape"
        THEN [ps1 EXCEPT !.s.conf.termCursorShape =
                            IF StrNEq(value, "underline", Len(value))
                            THEN "underline"
                            ELSE IF StrNEq(value, "ibeam", Len(value))
                            THEN "ibeam" ELSE "block"]
        ELSE IF d = "foreground"
        THEN SetColor(ps, option, value, "termForeground")
        ELSE IF d = "foreground_bold"
        THEN SetColor(ps, option, value, "termBoldColor")
        ELSE IF d = "background"
        THEN SetColor(ps, option, value, "termBackground")
        ELSE IF d = "color" THEN SetPalette(ps, option, value)
        ELSE ps1

RECURSIVE ParseLines(_, _)
ParseLines(ps, lines) ==
    IF Len(lines) = 0 THEN ps
    ELSE ParseLines(ParseLine(ps, Head(lines)), Tail(lines))

\* mutant: without a file the settings and the bindings are reset
parseSettings_ResetWithoutFile(s, file, uninit) ==
    IF file = NoFile
    THEN [s EXCEPT !.keyBindings = << >>, !.conf = DefaultConf,
                   !.actionKey = "alt"]
    ELSE ParseLines([s |-> [s EXCEPT !.keyBindings = << >>],
                     option |-> uninit[1], value |-> uninit[2]], file).s

\* parseSettings.  file is NoFile when fopen fails, else the lines of the
\* file; uninit is what option[] and value[] hold before the first sscanf.
parseSettings(s, file, uninit) ==
    IF file = NoFile THEN s
    ELSE ParseLines([s |-> [s EXCEPT !.keyBindings = << >>],
                     option |-> uninit[1], value |-> uninit[2]], file).s

-----------------------------------------------------------------------------
(* termOnKeyPress and termAction *)

ModifierMask == {"ctrl", "shift", "alt"}

\* the first of the indices hits at which a scan stops, 0 when there is none
FirstIndex(hits) ==
    IF hits = {} THEN 0 ELSE CHOOSE i \in hits : \A j \in hits : i <= j

Pass == [kind |-> "pass", idx |-> 0, cmd |-> "", internal |-> FALSE]

\* mutant: keyBindings is scanned before the default table
Resolve_UserFirst(s, key, state) ==
    LET keyState == state \cap ModifierMask
        DefaultHit(i) == /\ StrCaseEq(key, DefaultKeyBindings[i].key)
                         /\ i \notin s.invalid
        UserHit(i) == StrCaseEq(key, s.keyBindings[i].key)
        d == FirstIndex({i \in 1..defaultKeyCount : DefaultHit(i)})
        u == FirstIndex({i \in 1..Len(s.keyBindings) : UserHit(i)})
    IN  IF keyState # {s.actionKey, "ctrl"} THEN Pass
        ELSE IF atoi(key) # 0
        THEN [kind |-> "select", idx |-> atoi(key) - 1, cmd |-> "",
              internal |-> FALSE]
        ELSE IF u # 0
        THEN [kind |-> "user", idx |-> u,
              cmd |-> s.keyBindings[u].cmd,
              internal |-> s.keyBindings[u].internal]
        ELSE IF d # 0
        THEN [kind |-> "default", idx |-> d,
              cmd |-> DefaultKeyBindings[d].cmd,
              internal |-> DefaultKeyBindings[d].internal]
        ELSE Pass

\* mutant: the modifier bits only have to include actionKey and control
Resolve_AnyOtherModifier(s, key, state) ==
    LET keyState == state \cap ModifierMask
        DefaultHit(i) == /\ StrCaseEq(key, DefaultKeyBindings[i].key)
                         /\ i \notin s.invalid
        UserHit(i) == StrCaseEq(key, s.keyBindings[i].key)
        d == FirstIndex({i \in 1..defaultKeyCount : DefaultHit(i)})
        u == FirstIndex({i \in 1..Len(s.keyBindings) : UserHit(i)})
    IN  IF ~({s.actionKey, "ctrl"} \subseteq keyState) THEN Pass
        ELSE IF atoi(key) # 0
        THEN [kind |-> "select", idx |-> atoi(key) - 1, cmd |-> "",
              internal |-> FALSE]
        ELSE IF d # 0
        THEN [kind |-> "default", idx |-> d,
              cmd |-> DefaultKeyBindings[d].cmd,
              internal |-> DefaultKeyBindings[d].internal]
        ELSE IF u # 0
        THEN [kind |-> "user", idx |-> u,
              cmd |-> s.keyBindings[u].cmd,
              internal |-> s.keyBindings[u].internal]
        ELSE Pass

\* mutant: the key name is read as a page number after the tables were
\* scanned
Resolve_TablesFirst(s, key, state) ==
    LET keyState == state \cap ModifierMask
        DefaultHit(i) == /\ StrCaseEq(key, DefaultKeyBindings[i].key)
                         /\ i \notin s.invalid
        UserHit(i) == StrCaseEq(key, s.keyBindings[i].key)
        d == FirstIndex({i \in 1..defaultKeyCount : DefaultHit(i)})
        u == FirstIndex({i \in 1..Len(s.keyBindings) : UserHit(i)})
    IN  IF keyState # {s.actionKey, "ctrl"} THEN Pass
        ELSE IF d # 0
        THEN [kind |-> "default", idx |-> d,
              cmd |-> DefaultKeyBindings[d].cmd,
              internal |-> DefaultKeyBindings[d].internal]
        ELSE IF u # 0
        THEN [kind |-> "user", idx |-> u,
              cmd |-> s.keyBindings[u].cmd,
              internal |-> s.keyBindings[u].internal]
        ELSE IF atoi(key) # 0
        THEN [kind |-> "select", idx |-> atoi(key) - 1, cmd |-> "",
              internal |-> FALSE]
        ELSE Pass

\* What termOnKeyPress decides for a key name and an event state: "pass"
\* (return FALSE), "select" (set_current_page idx), or the entry of the
\* default table ("default") or of keyBindings ("user") that fires.
Resolve(s, key, state) ==
    LET keyState == state \cap ModifierMask
        DefaultHit(i) == /\ StrCaseEq(key, DefaultKeyBindings[i].key)
                         /\ i \notin s.invalid
        UserHit(i) == StrCaseEq(key, s.keyBindings[i].key)
        d == FirstIndex({i \in 1..defaultKeyCount : DefaultHit(i)})
        u == FirstIndex({i \in 1..Len(s.keyBindings) : UserHit(i)})
    IN  IF keyState # {s.actionKey, "ctrl"} THEN Pass
        ELSE IF atoi(key) # 0
        THEN [kind |-> "select", idx |-> atoi(key) - 1, cmd |-> "",
              internal |-> FALSE]
        ELSE IF d # 0
        THEN [kind |-> "default", idx |-> d,
              cmd |-> DefaultKeyBindings[d].cmd,
              internal |-> DefaultKeyBindings[d].internal]
        ELSE IF u # 0
        THEN [kind |-> "user", idx |-> u,
              cmd |-> s.keyBindings[u].cmd,
              internal |-> s.keyBindings[u].internal]
        ELSE Pass

\* the state after a handler has worked on the terminal of page p
WithTerminal(st, p) == [st.s EXCEPT !.tabs[p + 1] = st.t]

\* the pair for the terminal a key press came from: the focused terminal,
\* which is the one of the current page
Focused(s) == [s |-> s, t |-> s.tabs[s.cur + 1]]

\* the directory the program was launched in, which stays the working
\* directory of the process, and the directories that exist
LaunchDir == "/home/u/k3rmit"
Directories == {LaunchDir, "/tmp"}

\* no URI: vte_terminal_get_current_directory_uri returns NULL
NoUri == ""

\* chdir(path) in a process whose working directory is cwd: the working
\* directory afterwards and whether the call succeeded.  Of the relative
\* paths none leads to a directory.
chdir(cwd, path) ==
    IF path \in Directories THEN [dir |-> path, ok |-> TRUE]
    ELSE [dir |-> cwd, ok |-> FALSE]

HasSlash(file) == \E i \in 1..Len(file) : Ch(file, i) = "/"

\* whether execvp(file, argv) finds the program from the working directory
\* cwd: a name without a slash is searched in PATH and found as it was at
\* the launch, an absolute path is found, a relative path is found from
\* the launch directory only
execvp(file, cwd) ==
    IF HasSlash(file) THEN Head(file) = "/" \/ cwd = LaunchDir ELSE TRUE

\* termClone(terminal); uri is the current directory URI of the terminal.
\* The parent goes on as it is; the forked child changes to the path, if
\* there is one and chdir accepts it, and calls execvp; cloned holds the
\* arguments, the working directory of the child and whether the new
\* program was started.
termClone(s, uri) ==
    LET prefix == "file://"
        path == IF uri # NoUri /\ StrNEq(prefix, uri, Len(prefix))
                THEN Drop(uri, Len(prefix)) ELSE uri
        dir == IF path = NoUri THEN LaunchDir
               ELSE chdir(LaunchDir, path).dir
    IN  [s EXCEPT !.cloned = << [args |-> s.args, dir |-> dir,
                                 started |-> execvp(s.args[1], dir)] >>]

\* copy and paste go to the clipboard, which is not part of the state
Clipboard == {"copy", "paste"}

\* termAction returns TRUE whatever the action is
Returns_AlwaysTrue(s, value) == [s EXCEPT !.returned = <<TRUE>>]

\* a handler's state and the value termAction returns, << >> while it has
\* not been called
Returns(s, value) == [s EXCEPT !.returned = <<value>>]

\* a command without the carriage return that bindx appends
TrimCR(cmd) ==
    IF Len(cmd) > 0 /\ Ch(cmd, Len(cmd)) = "\r"
    THEN SubSeq(cmd, 1, Len(cmd) - 1) ELSE cmd

\* termAction(terminal, action); file and uninit are what a reload reads,
\* fontOk whether Pango accepts the font description, uri the current
\* directory URI of the terminal
termAction(s, action, file, uninit, fontOk, uri) ==
    IF action \in Clipboard THEN Returns(s, TRUE)
    ELSE IF action = "reload-config"
    THEN Returns(WithTerminal(
             configureTerm(Focused(parseSettings(s, file, uninit)), fontOk),
             s.cur), TRUE)
    ELSE IF action = "default-config"
    THEN Returns(WithTerminal(
             configureTerm(Focused([s EXCEPT !.conf.colorCount = 0]), fontOk),
             s.cur), TRUE)
    ELSE IF action = "new-tab" THEN Returns(AppendPage(s, fontOk), TRUE)
    ELSE IF action = "new-window" THEN Returns(termClone(s, uri), TRUE)
    ELSE IF action = "exit" THEN Returns(MainQuit(s), TRUE)
    ELSE IF action = "inc-font-size"
    THEN Returns(WithTerminal(
             setTermFont(Focused(s), s.currentFontSize + 1, fontOk), s.cur),
             TRUE)
    ELSE IF action = "dec-font-size"
    THEN Returns(WithTerminal(
             setTermFont(Focused(s), s.currentFontSize - 1, fontOk), s.cur),
             TRUE)
    ELSE IF action = "default-font-size"
    THEN Returns(WithTerminal(
             setTermFont(Focused(s), s.conf.defaultFontSize, fontOk), s.cur),
             TRUE)
    ELSE IF action = "next-tab" THEN Returns(NextPage(s), TRUE)
    ELSE IF action = "prev-tab" THEN Returns(PrevPage(s), TRUE)
    ELSE IF action = "close-tab" THEN Returns(CloseTabAction(s), TRUE)
    ELSE Returns(s, FALSE)

\* vte_terminal_feed_child(terminal, cmd, -1) for the terminal of the
\* current page, the one the key press came from
feed_child(s, cmd) == [s EXCEPT !.fed = << [page |-> s.cur, text |-> cmd] >>]

\* termOnKeyPress that takes the command of a literal binding for the name
\* of an action
termOnKeyPress_Interpret(s, r, file, uninit, fontOk, uri) ==
    IF r.kind = "select" THEN SetCurrentPage(s, r.idx)
    ELSE IF r.kind \in {"default", "user"}
    THEN termAction(s, TrimCR(r.cmd), file, uninit, fontOk, uri)
    ELSE s

\* the state termOnKeyPress leaves for a resolved key
termOnKeyPress(s, r, file, uninit, fontOk, uri) ==
    IF r.kind = "select" THEN SetCurrentPage(s, r.idx)
    ELSE IF r.kind \in {"default", "user"}
    THEN IF r.internal
         THEN termAction(s, r.cmd, file, uninit, fontOk, uri)
         ELSE feed_child(s, r.cmd)
    ELSE s

-----------------------------------------------------------------------------
(* Inputs *)

FileA == << "# kermit", "key alt",
            "bindi x~\"close-tab\"",
            "bindi x~\"new-tab\"",
            "bind w~\"exit\"" >>

FileB == << "key shift",
            "bind q~\"ls\"",
            "bindx w~\"make\"",
            "bindi Q~\"exit\"",
            "bindi z~\"next-tab\"" >>

FileC == << "bindi 2~\"prev-tab\"",
            "bindi q~\"reset\"",
            "bindi 0~\"prev-tab\"",
            "bind",
            "bindi y~" >>

ConfigFiles == {NoFile, << >>, FileA, FileB, FileC}

\* files of settings
FileS == << "key alt",
            "bindi q~reset\"",
            "bindx t~ls\"",
            "tab top",
            "opacity 0.8",
            "foreground #ffffff" >>

FileP == << "color0 #010203",
            "color1 ff0000" >>

FileQ == << "color5 #ff0000" >>

SettingsFiles == {NoFile, FileS, FileP, FileQ}

AllFiles == ConfigFiles \cup SettingsFiles

\* what the buffers of parseSettings may hold before the first sscanf
UninitBufs == { <<"", "">>, <<"bindi", "u~\"exit\"">> }

KeyNames == {"q", "Q", "w", "x", "z", "y", "t", "Return", "l", "r", "2", "0"}

EventStates == { {"ctrl", "alt", "lock"}, {"ctrl", "shift"},
                 {"ctrl", "alt", "shift"}, {"alt"} }

\* the one modifier state that fires the bindings under the default action
\* key: Ctrl and Alt, nothing else
DefaultActionStates == { {"ctrl", "alt"} }

\* the keys that reach the tab actions, and a key without a binding
TabKeys == {"w", "t", "l", "Left", "q", "1", "2", "9", "a"}

\* the keys of reload-config, default-config, new-tab, next-tab, prev-tab
SettingsKeys == {"r", "d", "t", "l", "h"}

\* the keys of the font size actions, new-tab, next-tab, prev-tab
FontKeys == {"k", "j", "equals", "t", "l", "h"}

\* six-digit colours, one of a few pairs of hexadecimal digits at each place
HexSamples ==
    {a \o b \o c :
        a \in {"1a", "09", "fF", "d0"}, b \in {"2b", "5D", "67", "A0"},
        c \in {"3c", "e4", "88", "Bf"}}

\* files of one line that sets the foreground, with and without the #
ColorFiles ==
    {<<"foreground #" \o h>> : h \in HexSamples}
        \cup {<<"foreground " \o h>> : h \in HexSamples}

\* the program starts with one of these files or without a file
ColorStartFiles == ColorFiles \cup {NoFile}

\* the key of reload-config
ReloadKeys == {"r"}

\* argument vectors of a launch: the program by its name, by a path
\* relative to the launch directory, by an absolute path
NameArgs == << "kermit" >>
LaunchArgs == { NameArgs, << "./kermit", "-d" >>,
                << "/usr/bin/kermit", "-t", "k3rmit" >> }

\* what vte_terminal_get_current_directory_uri may return: nothing, the
\* launch directory, another directory, a directory that is gone, and a
\* URI with a host name
CwdUris == { NoUri, "file:///home/u/k3rmit", "file:///tmp", "file:///gone",
             "file://host/tmp" }

\* the keys of new-window, new-tab, next-tab and close-tab
CloneKeys == {"n", "t", "l", "w"}

\* the font sizes the model lets inc-font-size and dec-font-size reach
FontSizeMax == TERM_FONT_DEFAULT_SIZE + MaxFontSteps
FontSizeMin == TERM_FONT_DEFAULT_SIZE - MaxFontSteps

-----------------------------------------------------------------------------
(* The state machine *)

\* last: the event (ev), the page of the terminal it came from, what
\* termOnKeyPress resolved a key to, the page the handler removed, and
\* whether Pango accepted the font description the handler asked for, and
\* the file parseSettings read (NoFile when there was none to read)
Event(ev, page, r, removed) ==
    [ev |-> ev, page |-> page, removed |-> removed, key |-> "", state |-> {},
     fontOk |-> TRUE, file |-> NoFile, uri |-> NoUri, cloned |-> << >>,
     fed |-> << >>, returned |-> << >>] @@ r

\* a key press and what its handler s2 put out
KeyEvent(page, key, state, r, s2, fontOk, file, uri) ==
    [ev |-> "key", page |-> page, removed |-> s2.removed, key |-> key,
     state |-> state, fontOk |-> fontOk, file |-> file, uri |-> uri,
     cloned |-> s2.cloned, fed |-> s2.fed, returned |-> s2.returned] @@ r

\* main: parseArgs keeps argv, parseSettings reads the file, then startTerm
\* appends the first page
InitState(argv, file, uninit, fontOk) ==
    AppendPage(parseSettings(
        [tabs |-> << >>, cur |-> 0, closeTab |-> FALSE, alive |-> TRUE,
         disposing |-> FALSE, orphanCb |-> FALSE, actionKey |-> "alt",
         keyBindings |-> << >>, invalid |-> {}, conf |-> DefaultConf,
         termPalette |-> ZeroPalette, currentFontSize |-> 0,
         args |-> argv, removed |-> -1, cloned |-> << >>, fed |-> << >>,
         returned |-> << >>],
        file, uninit), fontOk)

InitArgs(argvs, files, fontOks) ==
    \E argv \in argvs, file \in files, uninit \in UninitBufs,
       fontOk \in fontOks :
      \E s0 \in {InitState(argv, file, uninit, fontOk)} :
        /\ tabs = s0.tabs
        /\ cur = s0.cur
        /\ closeTab = s0.closeTab
        /\ alive = s0.alive
        /\ disposing = s0.disposing
        /\ orphanCb = s0.orphanCb
        /\ actionKey = s0.actionKey
        /\ keyBindings = s0.keyBindings
        /\ invalid = s0.invalid
        /\ conf = s0.conf
        /\ termPalette = s0.termPalette
        /\ currentFontSize = s0.currentFontSize
        /\ args = s0.args
        /\ last = [Event("start", -1, Pass, -1) EXCEPT !.fontOk = fontOk,
                                                        !.file = file]

\* a launch by the name of the program, without options
InitWith(files, fontOks) == InitArgs({NameArgs}, files, fontOks)

Init == InitArgs(LaunchArgs, AllFiles, BOOLEAN)

\* The main loop is running and no signal emission is under way.
Idle == alive /\ ~disposing

IsAction(r, action) ==
    r.kind \in {"default", "user"} /\ r.internal /\ r.cmd = action

\* the actions that reach pango_font_description_from_string
FontActions == {"reload-config", "default-config", "new-tab",
                "inc-font-size", "dec-font-size", "default-font-size"}

\* "key-press-event" on the focused terminal, the one of the current page.
\* files are the files a reload may find, fontOks the answers of Pango.
KeyPressWith(files, fontOks, key, state) ==
    /\ Idle
    /\ \E r \in {Resolve(State, key, state)} :
        LET reload == IsAction(r, "reload-config")
            font == r.kind \in {"default", "user"} /\ r.internal
                       /\ r.cmd \in FontActions
        IN  /\ IsAction(r, "new-tab") => Len(tabs) < MaxTabs
            /\ IsAction(r, "inc-font-size") => currentFontSize < FontSizeMax
            /\ IsAction(r, "dec-font-size") => currentFontSize > FontSizeMin
            /\ \E file \in IF reload THEN files ELSE {NoFile},
                  uninit \in IF reload THEN UninitBufs ELSE {<<"", "">>},
                  fontOk \in IF font THEN fontOks ELSE {TRUE},
                  uri \in IF IsAction(r, "new-window") THEN CwdUris
                          ELSE {NoUri} :
                  \E s2 \in {termOnKeyPress(State, r, file, uninit,
                                             fontOk, uri)} :
                    /\ s2.conf.colorCount <= MaxColorCount
                    /\ Becomes(s2)
                    /\ last' = KeyEvent(cur, key, state, r, s2,
                                        fontOk, file, uri)

KeyPress(key, state) == KeyPressWith(AllFiles, BOOLEAN, key, state)

\* "child-exited": the child of the terminal on page p exits by itself
ChildExit(p) ==
    /\ Idle
    /\ p \in 0..(Len(tabs) - 1)
    /\ tabs[p + 1].child = "running"
    /\ \E s2 \in {termOnChildExit(
                       [State EXCEPT !.tabs[p + 1].child = "none"])} :
           /\ Becomes(s2)
           /\ last' = Event("child-exited", p, Pass, s2.removed)

\* "child-exited" of the widget that a page removal dropped
DisposeExit ==
    /\ alive
    /\ disposing
    /\ \E s2 \in {termOnChildExit([State EXCEPT !.disposing = FALSE])} :
           /\ Becomes(s2)
           /\ last' = Event("disposed", -1, Pass, s2.removed)

\* a callback that takes the page of a failed spawn out of the notebook
SpawnResult_CloseOnFailure(p, ok) ==
    /\ Idle
    /\ p \in 0..(Len(tabs) - 1)
    /\ tabs[p + 1].child = "spawning"
    /\ tabs' = IF ok THEN [tabs EXCEPT ![p + 1].child = "running"]
               ELSE IF Len(tabs) > 1 THEN RemoveAt(tabs, p + 1)
               ELSE [tabs EXCEPT ![p + 1].child = "none"]
    /\ cur' = Min(cur, Len(tabs') - 1)
    /\ UNCHANGED <<closeTab, alive, disposing, orphanCb,
                   actionKey, keyBindings, invalid, conf, termPalette,
                   currentFontSize, args>>
    /\ last' = Event(IF ok THEN "spawned" ELSE "spawn-failed", p, Pass, -1)

\* termStateCallback for the terminal on page p: the result of
\* vte_terminal_spawn_async arrives; the callback only logs.  The widget has
\* its child from then on, or has none when the spawn failed.
SpawnResult(p, ok) ==
    /\ Idle
    /\ p \in 0..(Len(tabs) - 1)
    /\ tabs[p + 1].child = "spawning"
    /\ tabs' = [tabs EXCEPT ![p + 1].child = IF ok THEN "running" ELSE "none"]
    /\ UNCHANGED <<cur, closeTab, alive, disposing, orphanCb,
                   actionKey, keyBindings, invalid, conf, termPalette,
                   currentFontSize, args>>
    /\ last' = Event(IF ok THEN "spawned" ELSE "spawn-failed", p, Pass, -1)

\* termStateCallback for a widget whose page was removed before the result
\* arrived; more such callbacks may remain due
OrphanSpawnResult(more) ==
    /\ Idle
    /\ orphanCb
    /\ orphanCb' = more
    /\ UNCHANGED <<tabs, cur, closeTab, alive, disposing,
                   actionKey, keyBindings, invalid, conf, termPalette,
                   currentFontSize, args>>
    /\ last' = Event("spawn-orphan", -1, Pass, -1)

KeyEventsWith(files, fontOks, keys, states) ==
    \E key \in keys, state \in states :
        KeyPressWith(files, fontOks, key, state)

KeyEvents(keys, states) ==
    \E key \in keys, state \in states : KeyPress(key, state)

ProcessEvents ==
    \/ \E p \in 0..(MaxTabs - 1) : ChildExit(p)
    \/ DisposeExit
    \/ \E p \in 0..(MaxTabs - 1), ok \in BOOLEAN : SpawnResult(p, ok)
    \/ \E more \in BOOLEAN : OrphanSpawnResult(more)

Next ==
    \/ KeyEvents(KeyNames \cup TabKeys \cup SettingsKeys \cup FontKeys,
                 EventStates)
    \/ ProcessEvents

Spec == Init /\ [][Next]_vars

\* The tab lifecycle on its own: the settings are those of the start, the
\* keys are those of the tab actions, Pango accepts every font.
NextTabs ==
    \/ KeyEventsWith({NoFile}, {TRUE}, TabKeys, DefaultActionStates)
    \/ ProcessEvents

SpecTabs == InitWith({NoFile}, {TRUE}) /\ [][NextTabs]_vars

\* The key-binding registry on its own: every key and every file of
\* bindings, no process events.
NextKeys == KeyEventsWith(ConfigFiles, {TRUE}, KeyNames, EventStates)

SpecKeys == InitWith(ConfigFiles, {TRUE}) /\ [][NextKeys]_vars

\* The settings on their own: the files of settings, the keys that reload,
\* reset the palette, open and switch tabs; Pango accepts every font.
NextSettings == KeyEventsWith(SettingsFiles, {TRUE}, SettingsKeys,
                              DefaultActionStates)

SpecSettings == InitWith(SettingsFiles, {TRUE}) /\ [][NextSettings]_vars

\* The font size on its own: the settings are those of the start, Pango
\* accepts or refuses each font description.
NextFont == KeyEventsWith({NoFile}, BOOLEAN, FontKeys, DefaultActionStates)

SpecFont == InitWith({NoFile}, BOOLEAN) /\ [][NextFont]_vars

\* The colour values on their own: the program starts with or without one
\* of the files that set the foreground, and reload-config reads another.
NextColor ==
    KeyEventsWith(ColorFiles, {TRUE}, ReloadKeys, DefaultActionStates)

SpecColor == InitWith(ColorStartFiles, {TRUE}) /\ [][NextColor]_vars

\* New windows: every way of launching the program, the keys that open a
\* window, open, switch and close tabs, and the events of the children.
NextClone ==
    \/ KeyEventsWith({NoFile}, {TRUE}, CloneKeys, DefaultActionStates)
    \/ ProcessEvents

SpecClone == InitArgs(LaunchArgs, {NoFile}, {TRUE}) /\ [][NextClone]_vars

-----------------------------------------------------------------------------
(* Properties of the tab lifecycle, checked under SpecTabs *)

\* the step is a key press that termOnKeyPress resolved to this action
Did(action) == last'.ev = "key" /\ IsAction(last', action)

ValidCur == cur \in 0..(Len(tabs) - 1)

\* C1: the notebook always has at least one page, and a child-exited that
\* arrives with closeTab clear while there is exactly one page quits the
\* main loop and removes nothing.
C1_AtLeastOneTab ==
    /\ Len(tabs) >= 1
    /\ [][ /\ Len(tabs') >= 1
           /\ (last'.ev = "child-exited" /\ ~closeTab /\ Len(tabs) = 1)
                => (~alive' /\ Len(tabs') = 1 /\ last'.removed = -1) ]_vars

C1_Witness ==
    /\ last.ev = "child-exited"
    /\ ~alive
    /\ Len(tabs) = 1
    /\ tabs[1].child = "none"

\* C2: a close-tab with more than one page removes one page; when the
\* removed widget emits child-exited, the handler removes no further page,
\* does not quit, and leaves closeTab clear.
C2_OneRemovalPerClose ==
    [][ /\ (Did("close-tab") /\ Len(tabs) > 1)
            => Len(tabs') = Len(tabs) - 1
        /\ (last.ev = "key" /\ IsAction(last, "close-tab")
                /\ last'.ev = "disposed")
            => (tabs' = tabs /\ last'.removed = -1 /\ alive'
                /\ ~closeTab' /\ ~disposing') ]_vars

C2_Witness ==
    /\ last.ev = "disposed"
    /\ last.removed = -1
    /\ alive
    /\ ~closeTab
    /\ Len(tabs) >= 2

\* C3 (as claimed): a child-exited with closeTab clear and more than one
\* page removes the page of the terminal whose child exited, and only it.
C3_RemovesExitedTab ==
    [][ (last'.ev = "child-exited" /\ ~closeTab /\ Len(tabs) > 1)
            => /\ last'.removed = last'.page
               /\ tabs' = RemoveAt(tabs, last'.page + 1)
               /\ ~disposing' ]_vars

\* C4 (as claimed): the child-exited of a terminal that is still in the
\* notebook always leads to a page removal or to the end of the session.
C4_ExitNeverIgnored ==
    [][ last'.ev = "child-exited"
            => (Len(tabs') < Len(tabs) \/ ~alive') ]_vars

\* C5: close-tab with exactly one page changes neither the pages, nor the
\* current page, nor closeTab, and the main loop keeps running.
C5_CloseLastTabNoOp ==
    [][ (Did("close-tab") /\ Len(tabs) = 1)
            => (tabs' = tabs /\ cur' = cur /\ closeTab' = closeTab
                /\ alive' /\ ~disposing' /\ last'.removed = -1) ]_vars

C5_Witness ==
    /\ last.ev = "key"
    /\ IsAction(last, "close-tab")
    /\ last.removed = -1
    /\ Len(tabs) = 1
    /\ alive

\* C6: close-tab with n > 1 pages sets closeTab, removes the current page
\* and no other, and leaves the current page number within the n - 1 pages.
C6_CloseRemovesActive ==
    [][ (Did("close-tab") /\ Len(tabs) > 1)
            => /\ closeTab'
               /\ last'.removed = cur
               /\ tabs' = RemoveAt(tabs, cur + 1)
               /\ Len(tabs') = Len(tabs) - 1
               /\ cur' \in 0..(Len(tabs') - 1) ]_vars

C6_Witness ==
    /\ last.ev = "key"
    /\ IsAction(last, "close-tab")
    /\ last.removed = 1
    /\ closeTab
    /\ Len(tabs) = 2
    /\ ValidCur

\* C7: new-tab appends one page after the existing ones, which keep their
\* order, and the new page becomes the current one.
C7_NewTabAppends ==
    [][ Did("new-tab")
            => /\ Len(tabs') = Len(tabs) + 1
               /\ SubSeq(tabs', 1, Len(tabs)) = tabs
               /\ tabs'[Len(tabs')].child = "spawning"
               /\ cur' = Len(tabs') - 1 ]_vars

C7_Witness ==
    /\ last.ev = "key"
    /\ IsAction(last, "new-tab")
    /\ last.page = 0
    /\ Len(tabs) = 3
    /\ cur = 2
    /\ tabs[1].child = "running"

\* the step is a key press resolved to set_current_page
DidSelect == last'.ev = "key" /\ last'.kind = "select"

TabsFrame == tabs' = tabs /\ closeTab' = closeTab /\ alive' = alive

Clamp(n, lo, hi) == IF n < lo THEN lo ELSE IF n > hi THEN hi ELSE n

-----------------------------------------------------------------------------
(* Properties of the key-binding registry, checked under SpecKeys *)

\* the modifier bits of the key press are actionKey | GDK_CONTROL_MASK
Armed == (last'.state \cap ModifierMask) = {actionKey, "ctrl"}

\* default entries on the key that are not invalidated; user bindings on it
ValidDefaults(key) ==
    {i \in 1..defaultKeyCount :
        i \notin invalid /\ StrCaseEq(key, DefaultKeyBindings[i].key)}

UserMatches(key) ==
    {i \in 1..Len(keyBindings) : StrCaseEq(key, keyBindings[i].key)}

\* C9: a key with a default entry that is not invalidated fires that default
\* entry; a user binding fires only for a key without such a default entry,
\* and it is the first user binding on that key.
C9_DefaultsBeforeUser ==
    [][ last'.ev = "key" =>
        /\ (Armed /\ ValidDefaults(last'.key) # {})
              => /\ last'.kind = "default"
                 /\ last'.idx \in ValidDefaults(last'.key)
                 /\ last'.cmd = DefaultKeyBindings[last'.idx].cmd
        /\ last'.kind = "user"
              => /\ ValidDefaults(last'.key) = {}
                 /\ last'.idx \in UserMatches(last'.key)
                 /\ \A j \in UserMatches(last'.key) : last'.idx <= j
                 /\ last'.cmd = keyBindings[last'.idx].cmd
                 /\ last'.internal = keyBindings[last'.idx].internal
      ]_vars

\* a default fired although a user binding is on the same key
C9_Witness ==
    /\ last.ev = "key"
    /\ last.kind = "default"
    /\ last.key = "w"
    /\ UserMatches("w") # {}
    /\ 21 \notin invalid

\* the default entries with the command text and the internal flag of b
Matching(b) ==
    {i \in 1..defaultKeyCount :
        /\ DefaultKeyBindings[i].cmd = b.cmd
        /\ DefaultKeyBindings[i].internal = b.internal}

MatchingAll(bindings) ==
    UNION {Matching(bindings[i]) : i \in 1..Len(bindings)}

\* C10: a parse pass invalidates every default entry that has the command
\* text and the internal flag of one of the bindings it stored, and no other
\* entry; an invalidated default entry does not fire, and its key resolves
\* to a user binding on that key or passes through.
C10_InvalidationExact ==
    /\ invalid = MatchingAll(keyBindings)
    /\ [][ /\ MatchingAll(keyBindings') \subseteq invalid'
           /\ invalid' = invalid \cup
                  (IF Did("reload-config") THEN MatchingAll(keyBindings')
                   ELSE {})
           /\ last'.ev = "key" =>
               /\ last'.kind = "default" => last'.idx \notin invalid
               /\ (\E i \in invalid :
                       StrCaseEq(last'.key, DefaultKeyBindings[i].key))
                     => /\ last'.kind \in {"user", "pass"}
                        /\ last'.kind = "user"
                             => StrCaseEq(last'.key,
                                          keyBindings[last'.idx].key)
         ]_vars

\* both close-tab defaults are invalidated and "w" fires the user binding
C10_Witness ==
    /\ last.ev = "key"
    /\ last.key = "w"
    /\ last.kind = "user"
    /\ {21, 22} \subseteq invalid
    /\ \E i \in 1..Len(keyBindings) :
          keyBindings[i].cmd = "close-tab" /\ keyBindings[i].internal

\* C11 (as claimed): the default entries that are invalidated are those
\* with the command text and the internal flag of a binding of the file
\* parsed last, whatever was loaded before.
C11_InvalidFollowsLastFile == invalid = MatchingAll(keyBindings)

\* the state variables other than the event log
progVars == <<tabs, cur, closeTab, alive, disposing, orphanCb, actionKey,
              keyBindings, invalid, conf, termPalette, currentFontSize, args>>

\* C12: a key press whose control, shift and alt bits are not exactly
\* actionKey and control resolves to nothing (no page is selected, no entry
\* of either table fires) and changes no variable of the program.
C12_PassThroughFrame ==
    [][ (last'.ev = "key" /\ ~Armed)
            => (last'.kind = "pass" /\ UNCHANGED progVars) ]_vars

\* "w" has its default entry, but shift is held as well, or control is not
C12_Witness ==
    /\ last.ev = "key"
    /\ last.key = "w"
    /\ last.kind = "pass"
    /\ 21 \notin invalid
    /\ actionKey = "alt"
    /\ last.state \in {{"ctrl", "alt", "shift"}, {"alt"}}

\* what the two tables give for a key: the first default entry that is not
\* invalidated, else the first user binding, else nothing
FromTables(key) ==
    IF ValidDefaults(key) # {} THEN "default"
    ELSE IF UserMatches(key) # {} THEN "user"
    ELSE "pass"

\* C13: under the action modifier a key whose name atoi reads as n # 0
\* selects page n - 1 and fires no entry of either table, whatever is bound
\* to it; a key whose name reads as 0 gets what the tables give.
C13_DigitsSelectFirst ==
    [][ (last'.ev = "key" /\ Armed) =>
        /\ atoi(last'.key) # 0
              => /\ last'.kind = "select"
                 /\ last'.idx = atoi(last'.key) - 1
                 /\ keyBindings' = keyBindings /\ tabs' = tabs
        /\ atoi(last'.key) = 0
              => last'.kind = FromTables(last'.key)
      ]_vars

\* "2" selects page 1 although a user binding is on "2"
C13_Witness ==
    /\ last.ev = "key"
    /\ last.key = "2"
    /\ last.kind = "select"
    /\ last.idx = 1
    /\ UserMatches("2") # {}

-----------------------------------------------------------------------------
(* Properties of the settings, checked under SpecSettings *)

\* the step, or the start, ran a parse pass that read this file
Parsed(file) == last.file = file /\ file # NoFile

\* C14 (as claimed): parsing  bindi q~reset"  and  bindx t~ls"  stores the
\* commands reset and ls + carriage return: the text between ~ and the
\* closing quote.
C14_TextUpToQuote ==
    Parsed(FileS)
        => keyBindings =
               << [internal |-> TRUE, key |-> "q", cmd |-> "reset"],
                  [internal |-> FALSE, key |-> "t", cmd |-> "ls\r"] >>

\* C14 (amended): the stored command is the text after ~ without its first
\* and its last character: the two lines store eset and s + carriage
\* return, the lines with the command in quotes store reset and ls +
\* carriage return; the carriage return is appended for bindx only and the
\* binding is internal for bindi only, in the order of the file.
C14_FirstAndLastCut ==
    /\ Parsed(FileS)
        => keyBindings =
               << [internal |-> TRUE, key |-> "q", cmd |-> "eset"],
                  [internal |-> FALSE, key |-> "t", cmd |-> "s\r"] >>
    /\ parseSettings(State,
                     << "bindi q~\"reset\"", "bindx t~\"ls\"",
                        "bind u~\"ls\"" >>,
                     <<"", "">>).keyBindings =
           << [internal |-> TRUE, key |-> "q", cmd |-> "reset"],
              [internal |-> FALSE, key |-> "t", cmd |-> "ls\r"],
              [internal |-> FALSE, key |-> "u", cmd |-> "ls"] >>

\* a reload read the two lines
C14_Witness ==
    /\ last.ev = "key"
    /\ IsAction(last, "reload-config")
    /\ Parsed(FileS)
    /\ Len(keyBindings) = 2
    /\ keyBindings[1].cmd = "eset"
    /\ keyBindings[2].cmd = "s\r"

FromDefaults(file) ==
    parseSettings([State EXCEPT !.conf = DefaultConf, !.actionKey = "alt",
                                !.keyBindings = << >>],
                  file, <<"", "">>)

\* C16 (as claimed): after a reload that read a file, every setting is what
\* the file sets or else the built-in value, colorCount included, and the
\* user bindings are those of the file in its order.
C16_ReloadReplacesAll ==
    [][ (Did("reload-config") /\ last'.file # NoFile)
            => /\ conf' = FromDefaults(last'.file).conf
               /\ actionKey' = FromDefaults(last'.file).actionKey
               /\ keyBindings' = FromDefaults(last'.file).keyBindings
      ]_vars

\* the palette index a line  colorN value  names, -1 for any other line
ColorIndex(line) ==
    LET w == TakeWord(line)
    IN  IF /\ Len(w) > 5
           /\ SubSeq(w, 1, 5) = "color"
           /\ \A i \in 6..Len(w) : IsDigit(Ch(w, i))
           /\ atoi(Drop(w, 5)) \in PaletteIndex
        THEN atoi(Drop(w, 5)) ELSE -1

\* the colour such a line gives
ColorValue(line) ==
    CLR_GDK(parseColor(TakeWord(SkipSpace(Drop(line, Len(TakeWord(line))))))
                .color, 0)

\* the lines of the file that name palette index i
ColorLines(file, i) == {k \in 1..Len(file) : ColorIndex(file[k]) = i}

LastOf(S) == CHOOSE k \in S : \A j \in S : j <= k

\* C17 (as claimed): after a parse pass colorCount is the number of palette
\* indices the colorN lines of the file name, the palette holds the colour
\* of the file at each of these indices and the computed value at every
\* other index.
C17_NamedEntriesKept ==
    last.file # NoFile =>
        /\ conf.colorCount =
               Cardinality({i \in PaletteIndex :
                               ColorLines(last.file, i) # {}})
        /\ \A i \in PaletteIndex :
              PaletteAt(termPalette, i) =
                  IF ColorLines(last.file, i) # {}
                  THEN ColorValue(last.file[LastOf(ColorLines(last.file, i))])
                  ELSE AlgorithmicPalette[i]

RECURSIVE Decimal(_)
\* the decimal digits of n
Decimal(n) ==
    IF n < 10 THEN Ch(Digits, n + 1)
    ELSE Decimal(n \div 10) \o Ch(Digits, (n % 10) + 1)

\* the state after the loop of parseSettings has read one line
AfterLine(line) ==
    ParseLine([s |-> State, option |-> "", value |-> ""], line).s

\* C18 (as claimed): for every N in 0..255 the line  colorN #1a2b3c  sets
\* termPalette[N] to that colour and adds one to colorCount.
C18_EveryIndexRecognised ==
    \A n \in PaletteIndex :
        /\ PaletteAt(AfterLine("color" \o Decimal(n) \o " #1a2b3c")
                        .termPalette, n) = CLR_GDK(1715004, 0)
        /\ AfterLine("color" \o Decimal(n) \o " #1a2b3c").conf.colorCount
              = conf.colorCount + 1

\* C19 (as claimed): after reload-config every terminal of the notebook has
\* been given the settings the reload left.
C19_ReloadReachesAllTabs ==
    [][ Did("reload-config")
            => \A p \in 1..Len(tabs') :
                   tabs'[p].applied =
                       Applied(conf', termPalette',
                               <<conf'.termFont, conf'.defaultFontSize>>)
      ]_vars

-----------------------------------------------------------------------------
(* Properties of the font size, checked under SpecFont *)

\* the font size a terminal has been given
FontSizeOf(term) == term.applied.font[2]

\* C20 (as claimed): inc-font-size and dec-font-size give the terminal of
\* the current page its own font size plus or minus one, and leave the
\* other terminals as they are; when Pango refuses the font, the terminal
\* keeps its font.
C20_FontSizePerTerminal ==
    [][ /\ (Did("inc-font-size") /\ last'.fontOk
                /\ tabs[cur + 1].applied.font # << >>)
            => FontSizeOf(tabs'[cur + 1]) = FontSizeOf(tabs[cur + 1]) + 1
        /\ (Did("dec-font-size") /\ last'.fontOk
                /\ tabs[cur + 1].applied.font # << >>)
            => FontSizeOf(tabs'[cur + 1]) = FontSizeOf(tabs[cur + 1]) - 1
        /\ (Did("inc-font-size") \/ Did("dec-font-size"))
            => /\ \A p \in 1..Len(tabs) : p # cur + 1 => tabs'[p] = tabs[p]
               /\ ~last'.fontOk => tabs' = tabs
      ]_vars

-----------------------------------------------------------------------------
(* Properties of the computed palette, checked under SpecSettings *)

\* the three channels of an entry, each the double n / 65535
Over65535(r, g, b) ==
    [red |-> Frac(r, 65535), green |-> Frac(g, 65535), blue |-> Frac(b, 65535)]

Channels(e) == [red |-> e.red, green |-> e.green, blue |-> e.blue]

\* the indices below 16 that setTermColors has computed
Computed16 == {i \in 0..15 : i >= conf.colorCount}

\* C21 (as claimed): for every computed index below 16 a channel is 0xc000
\* when its colour bit is set and 0 otherwise, and the bright bit adds 0x3fff
\* to the channels whose colour bit is set only; index 8 is (0, 0, 0) and
\* index 9 is (0xffff, 0, 0).
C21_BrightOnSetChannels ==
    /\ \A i \in Computed16 :
          LET Chan(k) == IF (i \div (2 ^ k)) % 2 = 1
                         THEN 49152 + (IF i \div 8 = 1 THEN 16383 ELSE 0)
                         ELSE 0
          IN  Channels(PaletteAt(termPalette, i)) =
                  Over65535(Chan(0), Chan(1), Chan(2))
    /\ Channels(PaletteAt(termPalette, 8)) = Over65535(0, 0, 0)
    /\ Channels(PaletteAt(termPalette, 9)) = Over65535(65535, 0, 0)

\* C21 (amended): for every computed index below 16 a channel is 0xc000 when
\* its colour bit is set (bit 0 red, bit 1 green, bit 2 blue) and 0
\* otherwise, and the bright bit adds 0x3fff to all three channels; index 8
\* is (0x3fff, 0x3fff, 0x3fff) and index 9 is (0xffff, 0x3fff, 0x3fff).
C21_BrightOnEveryChannel ==
    /\ \A i \in Computed16 :
          LET Chan(k) == (IF (i \div (2 ^ k)) % 2 = 1 THEN 49152 ELSE 0)
                         + (IF i \div 8 = 1 THEN 16383 ELSE 0)
          IN  Channels(PaletteAt(termPalette, i)) =
                  Over65535(Chan(0), Chan(1), Chan(2))
    /\ Channels(PaletteAt(termPalette, 8)) = Over65535(16383, 16383, 16383)
    /\ Channels(PaletteAt(termPalette, 9)) = Over65535(65535, 16383, 16383)

\* a reload has left two entries of the file and setTermColors has computed
\* the rest for the terminal of the current page
C21_Witness ==
    /\ last.ev = "key" /\ IsAction(last, "reload-config")
    /\ conf.colorCount = 2
    /\ DOMAIN termPalette # {}
    /\ tabs[cur + 1].applied.palette = termPalette
    /\ \A i \in 2..15 :
          PaletteAt(tabs[cur + 1].applied.palette, i) = Algorithmic(i)

\* a channel n / d does not exceed 1
Within(ch) == ch[1] <= ch[2]

\* the steps in which setTermColors runs
Rebuilt ==
    Did("reload-config") \/ Did("default-config") \/ Did("new-tab")

\* C22: with colorCount 0 the computed palette has 0xffff / 65535 on the
\* three channels of index 15, 0x0808 / 65535 on those of index 232 and
\* 0xeeee / 65535 on those of index 255; no channel of a computed index from
\* 16 to 255 exceeds 1; and a step that computes the palette again from the
\* same colorCount and the same entries below it leaves all 256 entries as
\* they were and gives them to the terminal.
C22_EndsExactAndDeterministic ==
    /\ conf.colorCount = 0 =>
          /\ Channels(PaletteAt(termPalette, 15)) =
                 Over65535(65535, 65535, 65535)
          /\ Channels(PaletteAt(termPalette, 232)) =
                 Over65535(2056, 2056, 2056)
          /\ Channels(PaletteAt(termPalette, 255)) =
                 Over65535(61166, 61166, 61166)
    /\ \A i \in 16..255 :
          i >= conf.colorCount =>
              /\ Within(PaletteAt(termPalette, i).red)
              /\ Within(PaletteAt(termPalette, i).green)
              /\ Within(PaletteAt(termPalette, i).blue)
    /\ [][ ( /\ Rebuilt
             /\ conf'.colorCount = conf.colorCount
             /\ \A i \in PaletteIndex :
                   i < conf.colorCount =>
                       PaletteAt(termPalette', i) = PaletteAt(termPalette, i) )
              => /\ \A i \in PaletteIndex :
                       PaletteAt(termPalette', i) = PaletteAt(termPalette, i)
                 /\ \A i \in PaletteIndex :
                       PaletteAt(tabs'[IF Did("new-tab") THEN Len(tabs')
                                       ELSE cur + 1].applied.palette, i)
                           = PaletteAt(termPalette', i)
         ]_vars

\* default-config has computed all 256 entries a second time
C22_Witness ==
    /\ last.ev = "key" /\ IsAction(last, "default-config")
    /\ conf.colorCount = 0
    /\ DOMAIN termPalette = {}
    /\ DOMAIN tabs[cur + 1].applied.palette = {}
    /\ Len(tabs) > 1

-----------------------------------------------------------------------------
(* Properties of the colour values, checked under SpecColor *)

\* the value of the six hexadecimal digits h
HexValue(h) ==
    LET D(i) == HexOf[ToLower(Ch(h, i))]
    IN  D(1) * 1048576 + D(2) * 65536 + D(3) * 4096 + D(4) * 256
            + D(5) * 16 + D(6)

\* the six digits of the line  foreground #h  or  foreground h
DigitsOf(line) == SubSeq(line, Len(line) - 5, Len(line))

\* C23: parseColor gives the base-16 value of six hexadecimal digits with
\* and without a leading #: after a parse pass over a line that sets the
\* foreground to such a string, termForeground is that value, and parseColor
\* maps the string and the string behind a # to it.
C23_HashOptional ==
    last.file # NoFile =>
        \E h \in {DigitsOf(last.file[1])} :
            /\ last.file[1] \in {"foreground #" \o h, "foreground " \o h}
            /\ conf.termForeground = HexValue(h)
            /\ parseColor("#" \o h).color = HexValue(h)
            /\ parseColor(h).color = HexValue(h)

\* reload-config has read  foreground #1a2b3c  after the program had
\* started with a file
C23_Witness ==
    /\ last.ev = "key" /\ IsAction(last, "reload-config")
    /\ last.file = <<"foreground #1a2b3c">>
    /\ conf.termForeground = 1715004
    /\ tabs[cur + 1].applied.foreground = CLR_GDK(1715004, 0)

-----------------------------------------------------------------------------
(* Properties of new windows, checked under SpecClone *)

\* the URIs of the directories that chdir enters
Enterable == {"file://" \o d : d \in Directories}

\* C24 (as claimed): new-window starts a new program with the arguments of
\* the launch whatever the directory of the terminal is; when the terminal
\* has no directory or chdir refuses it, the new program runs in the launch
\* directory; and no variable of the parent changes.
C24_NewWindowAlwaysStarts ==
    [][ Did("new-window")
            => /\ Len(last'.cloned) = 1
               /\ last'.cloned[1].started
               /\ last'.cloned[1].args = args
               /\ last'.uri \notin Enterable
                      => last'.cloned[1].dir = LaunchDir
               /\ UNCHANGED progVars
      ]_vars

-----------------------------------------------------------------------------
(* Properties of the directive keywords, checked under SpecSettings *)

\* lines whose first word is none of locale, char, key, bind, bindx, bindi,
\* tab, font, opacity, cursor, cursor_foreground, cursor_shape, foreground,
\* foreground_bold, background, colorN
UnknownLines ==
    { "fo mono 12", "c \"ab\"", "x q~\"exit\"", "zz 1", "colour #ff0000" }

\* C25 (as claimed): a line whose first word is not one of the keywords is
\* skipped: no setting changes, no user binding is added, no default entry
\* is invalidated.
C25_UnknownKeywordSkipped ==
    \A line \in UnknownLines :
        /\ AfterLine(line).conf = conf
        /\ AfterLine(line).actionKey = actionKey
        /\ AfterLine(line).termPalette = termPalette
        /\ AfterLine(line).keyBindings = keyBindings
        /\ AfterLine(line).invalid = invalid

-----------------------------------------------------------------------------
(* Properties of the spawn callback, checked under SpecTabs *)

\* C26: the result of a spawn, success or failure, for a terminal that has
\* its page or for one whose page is gone, leaves the number and the order
\* of the pages, the current page, closeTab, the settings, the palette and
\* both binding tables as they are, removes no page and does not end the
\* main loop; after a failure the page is still there, without a child.
C26_SpawnResultFrame ==
    [][ last'.ev \in {"spawned", "spawn-failed", "spawn-orphan"}
            => /\ Len(tabs') = Len(tabs)
               /\ \A q \in 1..Len(tabs) :
                     /\ tabs'[q].applied = tabs[q].applied
                     /\ q # last'.page + 1 => tabs'[q] = tabs[q]
               /\ UNCHANGED <<cur, closeTab, alive, disposing, actionKey,
                              keyBindings, invalid, conf, termPalette,
                              currentFontSize, args>>
               /\ last'.removed = -1
               /\ last'.ev = "spawn-failed"
                      => tabs'[last'.page + 1].child = "none"
      ]_vars

\* the spawn for the first of two pages has failed and the page is still
\* there, while the second page is the current one
C26_Witness ==
    /\ last.ev = "spawn-failed"
    /\ last.page = 0
    /\ Len(tabs) = 2
    /\ cur = 1
    /\ tabs[1].child = "none"
    /\ alive

-----------------------------------------------------------------------------
(* Properties of the dispatch of bindings, checked under SpecKeys *)

\* the names termAction knows
ActionNames ==
    {"copy", "paste", "reload-config", "default-config", "new-tab",
     "new-window", "exit", "inc-font-size", "dec-font-size",
     "default-font-size", "next-tab", "prev-tab", "close-tab"}

\* C27: when a key resolves to an internal binding whose command is none of
\* the action names, termAction returns FALSE, its sign that no action was
\* found, and the key press changes no variable of the program: no page is
\* removed, nothing is fed to a terminal, no process is forked.
C27_UnknownActionReturnsFalse ==
    [][ ( /\ last'.ev = "key"
          /\ last'.kind \in {"default", "user"}
          /\ last'.internal
          /\ last'.cmd \notin ActionNames )
            => /\ last'.returned = <<FALSE>>
               /\ UNCHANGED progVars
               /\ last'.removed = -1
               /\ last'.fed = << >>
               /\ last'.cloned = << >>
      ]_vars

\* the internal user binding of q to reset has fired after the default
\* binding of q was invalidated
C27_Witness ==
    /\ last.ev = "key"
    /\ last.kind = "user"
    /\ last.internal
    /\ last.key = "q"
    /\ last.cmd = "reset"
    /\ last.returned = <<FALSE>>

\* the user bindings that are literal, and the internal ones
Literal(bindings) ==
    {k \in 1..Len(bindings) : ~bindings[k].internal}

Internal(bindings) ==
    {k \in 1..Len(bindings) : bindings[k].internal}

\* C28: a literal user binding (bind or bindx) is never taken for an action.
\* Storing it invalidates no default entry, also when its command is the
\* name of an action: the entries a parse pass invalidates all have the
\* command of an internal binding of the file.  When it fires, its command
\* is fed to the terminal of the page the key press came from and that is
\* all: termAction is not called, no variable of the program changes, no
\* page is removed, no process is forked.
C28_LiteralNeverAnAction ==
    /\ \A k \in Literal(keyBindings) :
          /\ Matching(keyBindings[k]) = {}
          /\ invalidateDefaultBinding(invalid, keyBindings[k]) = invalid
    /\ [][ /\ \A i \in invalid' \ invalid :
                 \E k \in Internal(keyBindings') :
                     keyBindings'[k].cmd = DefaultKeyBindings[i].cmd
           /\ ( /\ last'.ev = "key"
                /\ last'.kind \in {"default", "user"}
                /\ ~last'.internal )
                 => /\ last'.fed = << [page |-> cur, text |-> last'.cmd] >>
                    /\ last'.returned = << >>
                    /\ UNCHANGED progVars
                    /\ last'.removed = -1
                    /\ last'.cloned = << >>
         ]_vars

\* the literal binding of w to exit has fired: exit was fed to the terminal,
\* the main loop goes on and the default binding of exit is still valid
C28_Witness ==
    /\ last.ev = "key"
    /\ last.kind = "user"
    /\ ~last.internal
    /\ last.cmd = "exit"
    /\ last.fed = << [page |-> cur, text |-> "exit"] >>
    /\ alive
    /\ \A i \in 1..defaultKeyCount :
          DefaultKeyBindings[i].cmd = "exit" => i \notin invalid

=============================================================================
